---- MODULE Spec2Model ----
(***************************************************************************)
(* TableNavigator (src/table-navigator.js): keyboard and mouse driven row  *)
(* selection and marking on an HTML table.                                 *)
(*                                                                         *)
(* Representation of JavaScript values:                                    *)
(*   - a number is an integer; the one non-integer number the code can     *)
(*     produce, NaN (parseInt of a missing data-index), is the value NaN   *)
(*     below, and every arithmetic operator treats it as JavaScript does;  *)
(*   - a DOM string made of digits (dataset.index) is a sequence of digit  *)
(*     characters, the empty sequence standing for a missing attribute;    *)
(*   - dataset.marked is "true", "false" or "undefined" (missing);         *)
(*   - classList is a set of class names;                                  *)
(*   - a row argument of a method is the 0-based position of the row in    *)
(*     this.rows, or NaN for the JavaScript value undefined.               *)
(***************************************************************************)
EXTENDS Integers, Sequences, FiniteSets, TLC

VARIABLES phase, rows, selectedIndex, lastMarkedIndex, selectedCls, markedCls,
          threw, last

vars == <<phase, rows, selectedIndex, lastMarkedIndex, selectedCls, markedCls,
          threw, last>>

\* Largest number of rows of the table body.
MaxRows == 3

\* parseInt(undefined), and the result of arithmetic on it.
NaN == -1000

\* ---------------------------------------------------------------------------
\* JavaScript primitives used by the code
\* ---------------------------------------------------------------------------

DigitChars == <<"0", "1", "2", "3", "4", "5", "6", "7", "8", "9">>

DigitVal(c) == (CHOOSE d \in 1..10 : DigitChars[d] = c) - 1

\* String(n) for a non-negative integer, as stored by dataset.index = index.
RECURSIVE IntToStr(_)
IntToStr(n) ==
    IF n < 10 THEN <<DigitChars[n + 1]>>
    ELSE IntToStr(n \div 10) \o <<DigitChars[(n % 10) + 1]>>

\* parseInt(s): NaN for a missing attribute, else the decimal value.
RECURSIVE ParseInt(_)
ParseInt(s) ==
    IF s = <<>> THEN NaN
    ELSE IF Len(s) = 1 THEN DigitVal(s[1])
    ELSE ParseInt(SubSeq(s, 1, Len(s) - 1)) * 10 + DigitVal(s[Len(s)])

\* Math.min / Math.max: NaN when an argument is NaN.
MathMin(a, b) == IF a = NaN \/ b = NaN THEN NaN ELSE IF a <= b THEN a ELSE b

MathMax(a, b) == IF a = NaN \/ b = NaN THEN NaN ELSE IF a >= b THEN a ELSE b

\* a + d in JavaScript numbers.
Plus(a, d) == IF a = NaN THEN NaN ELSE a + d

Range(s) == { s[i] : i \in 1..Len(s) }

\* this.rows[i] !== undefined
HasRow(rs, i) == i # NaN /\ i >= 0 /\ i < Len(rs)

\* this.rows[i] for an existing row.
RowAt(rs, i) == rs[i + 1]

\* ---------------------------------------------------------------------------
\* Class list utilities
\* ---------------------------------------------------------------------------

addCls(el, clsList) == [el EXCEPT !.classList = @ \cup Range(clsList)]

removeCls(el, clsList) == [el EXCEPT !.classList = @ \ Range(clsList)]

\* clsList.forEach(cls => el.classList.toggle(cls, force))
toggleCls(el, clsList, force) ==
    IF force THEN addCls(el, clsList) ELSE removeCls(el, clsList)

\* ---------------------------------------------------------------------------
\* Methods. A controller state st is a record
\*   [rows, selectedIndex, lastMarkedIndex, selectedCls, markedCls, threw]
\* and each method maps the state before the call to the state after it;
\* threw is TRUE when the call ended in an uncaught TypeError.
\* ---------------------------------------------------------------------------

updateNavigation(st) ==
    LET cleared == [i \in 1..Len(st.rows) |-> removeCls(st.rows[i], st.selectedCls)]
    IN  IF ~HasRow(cleared, st.selectedIndex)
        THEN [st EXCEPT !.rows = cleared]
        ELSE [st EXCEPT !.rows =
                 [cleared EXCEPT ![st.selectedIndex + 1] = addCls(@, st.selectedCls)]]

clearAllMarks(st) ==
    [st EXCEPT !.rows =
        [i \in 1..Len(st.rows) |->
            removeCls([st.rows[i] EXCEPT !.marked = "false"], st.markedCls)]]

\* toggleMark that also drops the marks of the other rows.
toggleMark_clearsOthers(st, row) ==
    IF ~HasRow(st.rows, row) THEN st
    ELSE LET r        == RowAt(st.rows, row)
             isMarked == r.marked = "true"
             newRow   == toggleCls([r EXCEPT !.marked = IF isMarked THEN "false" ELSE "true"],
                                   st.markedCls, ~isMarked)
         IN  [st EXCEPT !.rows = [clearAllMarks(st).rows EXCEPT ![row + 1] = newRow],
                        !.lastMarkedIndex = IF isMarked THEN -1 ELSE ParseInt(r.index)]

\* toggleMark that leaves the anchor alone when it unmarks the row.
toggleMark_keepsAnchor(st, row) ==
    IF ~HasRow(st.rows, row) THEN st
    ELSE LET r        == RowAt(st.rows, row)
             isMarked == r.marked = "true"
             newRow   == toggleCls([r EXCEPT !.marked = IF isMarked THEN "false" ELSE "true"],
                                   st.markedCls, ~isMarked)
         IN  [st EXCEPT !.rows = [@ EXCEPT ![row + 1] = newRow],
                        !.lastMarkedIndex = IF isMarked THEN @ ELSE ParseInt(r.index)]

\* toggleMark that records the 1-based position of the row as the anchor.
toggleMark_oneBasedAnchor(st, row) ==
    IF ~HasRow(st.rows, row) THEN st
    ELSE LET r        == RowAt(st.rows, row)
             isMarked == r.marked = "true"
             newRow   == toggleCls([r EXCEPT !.marked = IF isMarked THEN "false" ELSE "true"],
                                   st.markedCls, ~isMarked)
         IN  [st EXCEPT !.rows = [@ EXCEPT ![row + 1] = newRow],
                        !.lastMarkedIndex = IF isMarked THEN -1 ELSE ParseInt(r.index) + 1]

toggleMark(st, row) ==
    IF ~HasRow(st.rows, row) THEN st
    ELSE LET r        == RowAt(st.rows, row)
             isMarked == r.marked = "true"
             newRow   == toggleCls([r EXCEPT !.marked = IF isMarked THEN "false" ELSE "true"],
                                   st.markedCls, ~isMarked)
         IN  [st EXCEPT !.rows = [@ EXCEPT ![row + 1] = newRow],
                        !.lastMarkedIndex = IF isMarked THEN -1 ELSE ParseInt(r.index)]

\* markSingle that forgets to clear the marks first.
markSingle_noClear(st, row) == toggleMark(st, row)

markSingle(st, row) == toggleMark(clearAllMarks(st), row)

\* this.rows.slice(start, end) for non-negative bounds: the positions taken.
SliceIdx(rs, start, end) == { i \in 0..(Len(rs) - 1) : start <= i /\ i < end }

\* markRange with slice(start, end): the last row of the range is left out.
markRange_exclusiveEnd(st, endRow) ==
    IF st.lastMarkedIndex = -1 THEN toggleMark(st, endRow)
    ELSE IF ~HasRow(st.rows, endRow) THEN [st EXCEPT !.threw = TRUE]
    ELSE LET idx   == RowAt(st.rows, endRow).index
             start == MathMin(st.lastMarkedIndex, ParseInt(idx))
             end   == MathMax(st.lastMarkedIndex, ParseInt(idx))
             hit   == SliceIdx(st.rows, start, end)
         IN  [st EXCEPT !.rows =
                    [i \in 1..Len(st.rows) |->
                        IF (i - 1) \in hit
                        THEN addCls([st.rows[i] EXCEPT !.marked = "true"], st.markedCls)
                        ELSE st.rows[i]],
                        !.lastMarkedIndex = ParseInt(idx)]

\* markRange that marks the end row instead of toggling it when there is no
\* anchor.
markRange_noAnchorMarks(st, endRow) ==
    IF ~HasRow(st.rows, endRow) THEN
        (IF st.lastMarkedIndex = -1 THEN st ELSE [st EXCEPT !.threw = TRUE])
    ELSE LET idx   == RowAt(st.rows, endRow).index
             a     == IF st.lastMarkedIndex = -1 THEN ParseInt(idx) ELSE st.lastMarkedIndex
             start == MathMin(a, ParseInt(idx))
             end   == MathMax(a, ParseInt(idx))
             hit   == SliceIdx(st.rows, start, Plus(end, 1))
         IN  [st EXCEPT !.rows =
                    [i \in 1..Len(st.rows) |->
                        IF (i - 1) \in hit
                        THEN addCls([st.rows[i] EXCEPT !.marked = "true"], st.markedCls)
                        ELSE st.rows[i]],
                        !.lastMarkedIndex = ParseInt(idx)]

\* markRange that sets the marked flag of the range but not its classes.
markRange_flagOnly(st, endRow) ==
    IF st.lastMarkedIndex = -1 THEN toggleMark(st, endRow)
    ELSE IF ~HasRow(st.rows, endRow) THEN [st EXCEPT !.threw = TRUE]
    ELSE LET idx   == RowAt(st.rows, endRow).index
             start == MathMin(st.lastMarkedIndex, ParseInt(idx))
             end   == MathMax(st.lastMarkedIndex, ParseInt(idx))
             hit   == SliceIdx(st.rows, start, Plus(end, 1))
         IN  [st EXCEPT !.rows =
                    [i \in 1..Len(st.rows) |->
                        IF (i - 1) \in hit
                        THEN [st.rows[i] EXCEPT !.marked = "true"]
                        ELSE st.rows[i]],
                        !.lastMarkedIndex = ParseInt(idx)]

markRange(st, endRow) ==
    IF st.lastMarkedIndex = -1 THEN toggleMark(st, endRow)
    ELSE IF ~HasRow(st.rows, endRow) THEN [st EXCEPT !.threw = TRUE]
    ELSE LET idx   == RowAt(st.rows, endRow).index
             start == MathMin(st.lastMarkedIndex, ParseInt(idx))
             end   == MathMax(st.lastMarkedIndex, ParseInt(idx))
             hit   == SliceIdx(st.rows, start, Plus(end, 1))
         IN  [st EXCEPT !.rows =
                    [i \in 1..Len(st.rows) |->
                        IF (i - 1) \in hit
                        THEN addCls([st.rows[i] EXCEPT !.marked = "true"], st.markedCls)
                        ELSE st.rows[i]],
                        !.lastMarkedIndex = ParseInt(idx)]

handleMarking(st, shiftKey, ctrlKey) ==
    LET currentRow == IF HasRow(st.rows, st.selectedIndex) THEN st.selectedIndex ELSE NaN
    IN  IF shiftKey THEN markRange(st, currentRow)
        ELSE IF ctrlKey THEN toggleMark(st, currentRow)
        ELSE markSingle(st, currentRow)

\* handleNavigation that wraps around at both ends of the table.
handleNavigation_wraps(st, key) ==
    LET n        == Len(st.rows)
        newIndex == IF st.selectedIndex = NaN \/ n = 0 THEN st.selectedIndex
                    ELSE IF key = "ArrowUp" THEN (st.selectedIndex - 1 + n) % n
                    ELSE (st.selectedIndex + 1) % n
    IN  updateNavigation([st EXCEPT !.selectedIndex = newIndex])

\* handleNavigation that drops the range anchor when the selection moves.
handleNavigation_resetsAnchor(st, key) ==
    LET newIndex == IF key = "ArrowUp"
                    THEN MathMax(0, Plus(st.selectedIndex, -1))
                    ELSE MathMin(Len(st.rows) - 1, Plus(st.selectedIndex, 1))
    IN  updateNavigation([st EXCEPT !.selectedIndex = newIndex,
                                    !.lastMarkedIndex = -1])

handleNavigation(st, key) ==
    LET newIndex == IF key = "ArrowUp"
                    THEN MathMax(0, Plus(st.selectedIndex, -1))
                    ELSE MathMin(Len(st.rows) - 1, Plus(st.selectedIndex, 1))
    IN  updateNavigation([st EXCEPT !.selectedIndex = newIndex])

\* e.metaKey is part of the event but handleKeyDown does not read it.
handleKeyDown(st, key, shiftKey, ctrlKey, metaKey) ==
    LET s1 == IF key \in {"ArrowUp", "ArrowDown"} THEN handleNavigation(st, key) ELSE st
    IN  IF key = " " THEN handleMarking(s1, shiftKey, ctrlKey) ELSE s1

\* e.target.closest('tr'), a record [kind, pos]: kind "row" for the row of
\* this.rows at position pos, "none" when closest('tr') is null, "foreign"
\* for a tr that is not in this.rows (a header or footer row, a row of
\* another tbody) and has no data-index.
ClickIndex(st, target) ==
    IF target.kind = "foreign" THEN <<>> ELSE RowAt(st.rows, target.pos).index

\* handleClick that marks before it moves the selection.
handleClick_markFirst(st, target, shiftKey, ctrlKey, metaKey) ==
    IF target.kind = "none" THEN st
    ELSE LET index == ParseInt(ClickIndex(st, target))
             s1    == handleMarking(st, shiftKey, ctrlKey \/ metaKey)
         IN  updateNavigation([s1 EXCEPT !.selectedIndex = index])

handleClick(st, target, shiftKey, ctrlKey, metaKey) ==
    IF target.kind = "none" THEN st
    ELSE LET index == ParseInt(ClickIndex(st, target))
             s1    == updateNavigation([st EXCEPT !.selectedIndex = index])
         IN  handleMarking(s1, shiftKey, ctrlKey \/ metaKey)

\* initialize that does not reset the marked flag the markup carries.
initialize_keepsMarked(st) ==
    updateNavigation([st EXCEPT !.rows =
        [i \in 1..Len(st.rows) |->
            [index     |-> IntToStr(i - 1),
             marked    |-> st.rows[i].marked,
             classList |-> (st.rows[i].classList \ Range(st.markedCls))
                               \ Range(st.selectedCls)]]])

initialize(st) ==
    updateNavigation([st EXCEPT !.rows =
        [i \in 1..Len(st.rows) |->
            [index     |-> IntToStr(i - 1),
             marked    |-> "false",
             classList |-> (st.rows[i].classList \ Range(st.markedCls))
                               \ Range(st.selectedCls)]]])

\* new TableNavigator(tableId, selectedCls, markedCls) on the markup rs; the
\* class arguments are given already split on ' '.
constructor(rs, selCls, mkCls) ==
    initialize([rows |-> rs, selectedIndex |-> 0, lastMarkedIndex |-> -1,
                selectedCls |-> selCls, markedCls |-> mkCls, threw |-> FALSE])

\* ---------------------------------------------------------------------------
\* State machine
\* ---------------------------------------------------------------------------

\* The class arguments a page passes to the constructor: one class each, two
\* classes each, and two classes each of which one is in both lists.
ClsArgs == { [selectedCls |-> <<"selected">>, markedCls |-> <<"marked">>],
             [selectedCls |-> <<"selected", "focus">>,
              markedCls |-> <<"marked", "bold">>],
             [selectedCls |-> <<"selected", "bold">>,
              markedCls |-> <<"marked", "bold">>] }

\* What a row of the markup may carry before the controller is built.
MarkupRows(c) ==
    [index : {<<>>}, marked : {"undefined", "true"},
     classList : { {}, Range(c.selectedCls), Range(c.markedCls),
                   Range(c.selectedCls) \cup Range(c.markedCls) }]

Keys == {"ArrowUp", "ArrowDown", " ", "Enter"}

NoTarget == [kind |-> "none", pos |-> -1]

ForeignRow == [kind |-> "foreign", pos |-> -1]

RowTarget(i) == [kind |-> "row", pos |-> i]

Targets(rs) == { RowTarget(i) : i \in 0..(Len(rs) - 1) } \cup {NoTarget, ForeignRow}

\* The event last dispatched to the controller, with the range anchor
\* (this.lastMarkedIndex) the handler found when it started.
Event(ev, key, target, s, c, m) ==
    [ev |-> ev, key |-> key, target |-> target,
     shiftKey |-> s, ctrlKey |-> c, metaKey |-> m, anchor |-> lastMarkedIndex]

Cur == [rows |-> rows, selectedIndex |-> selectedIndex,
        lastMarkedIndex |-> lastMarkedIndex, selectedCls |-> selectedCls,
        markedCls |-> markedCls, threw |-> FALSE]

Install(st) ==
    /\ rows' = st.rows
    /\ selectedIndex' = st.selectedIndex
    /\ lastMarkedIndex' = st.lastMarkedIndex
    /\ threw' = st.threw
    /\ selectedCls' = st.selectedCls
    /\ markedCls' = st.markedCls

Init ==
    /\ phase = "markup"
    /\ \E c \in ClsArgs :
          /\ selectedCls = c.selectedCls
          /\ markedCls = c.markedCls
          /\ \E n \in 0..MaxRows : rows \in [1..n -> MarkupRows(c)]
    /\ selectedIndex = 0
    /\ lastMarkedIndex = -1
    /\ threw = FALSE
    /\ last = Event("none", "", NoTarget, FALSE, FALSE, FALSE)

Construct ==
    /\ phase = "markup"
    /\ phase' = "ready"
    /\ Install(constructor(rows, selectedCls, markedCls))
    /\ last' = Event("construct", "", NoTarget, FALSE, FALSE, FALSE)

KeyDown ==
    /\ phase = "ready"
    /\ \E key \in Keys, s \in BOOLEAN, c \in BOOLEAN, m \in BOOLEAN :
          /\ Install(handleKeyDown(Cur, key, s, c, m))
          /\ last' = Event("keydown", key, NoTarget, s, c, m)
    /\ UNCHANGED phase

Click ==
    /\ phase = "ready"
    /\ \E target \in Targets(rows), s \in BOOLEAN, c \in BOOLEAN, m \in BOOLEAN :
          /\ Install(handleClick(Cur, target, s, c, m))
          /\ last' = Event("click", "", target, s, c, m)
    /\ UNCHANGED phase

Next == Construct \/ KeyDown \/ Click

Spec == Init /\ [][Next]_vars

\* Keyboard input only.
KeyNext == Construct \/ KeyDown

SpecKeys == Init /\ [][KeyNext]_vars

\* ---------------------------------------------------------------------------
\* Observations
\* ---------------------------------------------------------------------------

Ready == phase = "ready"

rowCount == Len(rows)

\* Positions of the rows whose marked flag (dataset.marked) is 'true'.
Marked == { i \in 0..(Len(rows) - 1) : rows[i + 1].marked = "true" }

\* Positions of the rows that carry every class of selectedCls.
SelectedVisual ==
    { i \in 0..(Len(rows) - 1) : Range(selectedCls) \subseteq rows[i + 1].classList }

\* Positions of the rows that carry every class of markedCls.
MarkedVisual ==
    { i \in 0..(Len(rows) - 1) : Range(markedCls) \subseteq rows[i + 1].classList }

SpaceKey == last.ev = "keydown" /\ last.key = " "

ClickOnTr == last.ev = "click" /\ last.target.kind # "none"

ClickOnRow == last.ev = "click" /\ last.target.kind = "row"

NoModifier == ~last.shiftKey /\ ~last.ctrlKey /\ ~last.metaKey

\* The last event ran markSingle / toggleMark / markRange on the selection.
SingleMarkDone == (SpaceKey \/ ClickOnTr) /\ NoModifier

ToggleMarkDone ==
    /\ ~last.shiftKey
    /\ \/ SpaceKey /\ last.ctrlKey
       \/ ClickOnTr /\ (last.ctrlKey \/ last.metaKey)

RangeMarkDone == (SpaceKey \/ ClickOnTr) /\ last.shiftKey

Lo(a, b) == IF a <= b THEN a ELSE b

Hi(a, b) == IF a >= b THEN a ELSE b

\* The mark mode the specification assigns to a modifier combination.
ModeOf(s, c, m) == IF s THEN "range" ELSE IF c \/ m THEN "toggle" ELSE "single"

\* mark(mode) on the current selection.
Mark(st, mode) ==
    LET currentRow == IF HasRow(st.rows, st.selectedIndex) THEN st.selectedIndex ELSE NaN
    IN  CASE mode = "range"  -> markRange(st, currentRow)
          [] mode = "toggle" -> toggleMark(st, currentRow)
          [] mode = "single" -> markSingle(st, currentRow)

\* The marked set and the anchor the specification prescribes for mark(mode)
\* on selected row b, from marked set M and anchor a.
ExpMarked(mode, M, a, b) ==
    IF mode = "single" THEN {b}
    ELSE IF mode = "toggle" \/ a = -1
         THEN (IF b \in M THEN M \ {b} ELSE M \cup {b})
         ELSE M \cup (Lo(a, b)..Hi(a, b))

ExpAnchor(mode, M, a, b) ==
    IF mode = "single" THEN b
    ELSE IF mode = "toggle" \/ a = -1
         THEN (IF b \in M THEN -1 ELSE b)
         ELSE b

\* ---------------------------------------------------------------------------
\* Claims
\* ---------------------------------------------------------------------------

\* C1: on a table with rowCount > 0, after any sequence of key presses and
\* clicks, selectedIndex is an integer with 0 <= selectedIndex < rowCount.
C1_SelectedIndexInRange ==
    (Ready /\ rowCount > 0) => selectedIndex \in 0..(rowCount - 1)

\* C2: exactly one row carries the selected visual state when rowCount > 0
\* (none when rowCount = 0), and it is the row at selectedIndex.
C2_ExclusiveSelectionVisual ==
    Ready => SelectedVisual = (IF rowCount > 0 THEN {selectedIndex} ELSE {})

\* C3: after mark(single) with rowCount > 0 the set of marked rows is exactly
\* {selectedIndex} and lastMarkedIndex equals selectedIndex.
C3_SingleMarkExclusive ==
    [][(Ready /\ SingleMarkDone' /\ rowCount > 0)
          => (Marked' = {selectedIndex'} /\ lastMarkedIndex' = selectedIndex')]_vars

\* C4: mark(range) with anchor a = lastMarkedIndex # -1 and current selection b
\* marks exactly the rows of [min(a,b), max(a,b)] in addition to those already
\* marked, unmarks nothing, and sets lastMarkedIndex to b.
C4_RangeInclusive ==
    [][(Ready /\ RangeMarkDone' /\ lastMarkedIndex # -1
              /\ selectedIndex' \in 0..(rowCount - 1))
          => /\ Marked' = Marked \cup (Lo(lastMarkedIndex, selectedIndex')
                                         ..Hi(lastMarkedIndex, selectedIndex'))
             /\ lastMarkedIndex' = selectedIndex'
             /\ ~threw']_vars

\* A range mark over at least two rows has acted and a mark outside the
\* interval is still there.
C4_Witness ==
    /\ Ready /\ SpaceKey /\ last.shiftKey
    /\ last.anchor # -1 /\ last.anchor # selectedIndex
    /\ selectedIndex \in 0..(rowCount - 1)
    /\ lastMarkedIndex = selectedIndex
    /\ (Lo(last.anchor, selectedIndex)..Hi(last.anchor, selectedIndex)) \subseteq Marked
    /\ Marked # (Lo(last.anchor, selectedIndex)..Hi(last.anchor, selectedIndex))

\* C5: mark(toggle) flips the marked flag of the selected row and leaves the
\* marked flag of every other row unchanged.
C5_ToggleIndependence ==
    [][(Ready /\ ToggleMarkDone')
          => \A i \in 0..(rowCount - 1) :
                (i \in Marked') <=> (IF i = selectedIndex' THEN i \notin Marked
                                                          ELSE i \in Marked)]_vars

\* A toggle has unmarked the selected row while another row stays marked.
C5_Witness ==
    /\ Ready /\ SpaceKey /\ last.ctrlKey /\ ~last.shiftKey
    /\ selectedIndex \in 0..(rowCount - 1)
    /\ selectedIndex \notin Marked
    /\ Marked # {}

\* C6: with no anchor (lastMarkedIndex = -1), mark(range) yields exactly the
\* state mark(toggle) yields from the same state: rows, selectedIndex,
\* lastMarkedIndex.
C6_RangeDegeneratesToToggle ==
    (Ready /\ lastMarkedIndex = -1)
        => \A c \in BOOLEAN, m \in BOOLEAN :
              handleKeyDown(Cur, " ", TRUE, c, m) = handleKeyDown(Cur, " ", FALSE, TRUE, m)

\* A range mark without anchor has unmarked the selected row.
C6_Witness ==
    /\ Ready /\ SpaceKey /\ last.shiftKey /\ last.anchor = -1
    /\ selectedIndex \in 0..(rowCount - 1)
    /\ selectedIndex \notin Marked
    /\ lastMarkedIndex = -1
    /\ Marked # {}

\* C7: for the space key and for a click alike, the mark performed is
\* mark(range) with shift, mark(toggle) with ctrl or meta and no shift,
\* mark(single) otherwise.
C7_ModeFromModifiers ==
    Ready => \A s \in BOOLEAN, c \in BOOLEAN, m \in BOOLEAN :
                /\ handleKeyDown(Cur, " ", s, c, m) = Mark(Cur, ModeOf(s, c, m))
                /\ \A i \in 0..(rowCount - 1) :
                      handleClick(Cur, RowTarget(i), s, c, m)
                        = Mark(updateNavigation([Cur EXCEPT !.selectedIndex = i]),
                               ModeOf(s, c, m))

\* C8: a click on row r with modifiers m selects r and then performs
\* mark(mode(m)) on it; with no modifiers exactly row r ends up marked.
C8_ClickSelectsThenMarks ==
    [][(Ready /\ ClickOnRow')
          => LET r    == last'.target.pos
                 mode == ModeOf(last'.shiftKey, last'.ctrlKey, last'.metaKey)
             IN  /\ selectedIndex' = r
                 /\ Marked' = ExpMarked(mode, Marked, lastMarkedIndex, r)
                 /\ lastMarkedIndex' = ExpAnchor(mode, Marked, lastMarkedIndex, r)
                 /\ ~threw']_vars

\* A plain click has moved the selection to a row other than the anchor and
\* left it the only marked row.
C8_Witness ==
    /\ Ready /\ ClickOnRow /\ NoModifier
    /\ last.anchor # -1 /\ last.anchor # last.target.pos
    /\ selectedIndex = last.target.pos
    /\ Marked = {selectedIndex}
    /\ lastMarkedIndex = selectedIndex

\* C9: a click that lands on no row of the controller changes nothing:
\* selectedIndex, lastMarkedIndex, marked flags, selected visual state.
C9_ClickOutsideRowsIgnored ==
    [][(Ready /\ last'.ev = "click" /\ last'.target.kind # "row")
          => UNCHANGED <<rows, selectedIndex, lastMarkedIndex>>]_vars

\* C10: on a table with zero rows no selected visual state is applied and
\* navigate and mark change nothing and raise nothing: selectedIndex stays 0
\* and lastMarkedIndex stays -1.
C10_EmptyTableNoOp ==
    (Ready /\ rowCount = 0)
        => (selectedIndex = 0 /\ lastMarkedIndex = -1 /\ ~threw /\ SelectedVisual = {})

\* C11: a mark in any mode invoked while selectedIndex addresses no existing
\* row changes no marked flag, leaves lastMarkedIndex unchanged and raises no
\* error.
C11_MarkWithoutRowIsNoOp ==
    [][(Ready /\ SpaceKey' /\ ~HasRow(rows, selectedIndex))
          => (Marked' = Marked /\ lastMarkedIndex' = lastMarkedIndex /\ ~threw')]_vars

\* C12: mark(toggle) sets lastMarkedIndex to the selected row's index when the
\* row becomes marked and to -1 when it becomes unmarked.
C12_ToggleUpdatesAnchor ==
    [][(Ready /\ ToggleMarkDone' /\ selectedIndex' \in 0..(rowCount - 1))
          => lastMarkedIndex' = (IF selectedIndex' \in Marked' THEN selectedIndex'
                                                               ELSE -1)]_vars

\* A toggle has unmarked the selected row and cleared an anchor that pointed
\* at another row, which is still marked.
C12_Witness ==
    /\ Ready /\ SpaceKey /\ last.ctrlKey /\ ~last.shiftKey
    /\ selectedIndex \in 0..(rowCount - 1)
    /\ selectedIndex \notin Marked
    /\ last.anchor # -1 /\ last.anchor # selectedIndex /\ last.anchor \in Marked
    /\ lastMarkedIndex = -1

\* C13: with rowCount > 0, navigate(up) sets selectedIndex to
\* max(0, selectedIndex - 1) and navigate(down) to
\* min(rowCount - 1, selectedIndex + 1): one row at a time, no wraparound.
C13_NavigateClamps ==
    [][(Ready /\ last'.ev = "keydown" /\ last'.key \in {"ArrowUp", "ArrowDown"}
              /\ rowCount > 0 /\ selectedIndex \in 0..(rowCount - 1))
          => selectedIndex' = (IF last'.key = "ArrowUp"
                               THEN Hi(0, selectedIndex - 1)
                               ELSE Lo(rowCount - 1, selectedIndex + 1))]_vars

\* ArrowDown has been handled and the selection is on the last of several rows.
C13_Witness ==
    /\ Ready /\ last.ev = "keydown" /\ last.key = "ArrowDown"
    /\ rowCount >= 2
    /\ selectedIndex = rowCount - 1
    /\ SelectedVisual = {rowCount - 1}

\* C14: right after construction, whatever the rows carried before,
\* selectedIndex = 0, lastMarkedIndex = -1, no row is marked, each row's
\* position index is its position, and row 0 alone carries the selected
\* visual state when there are rows.
C14_ConstructionNormalizes ==
    (Ready /\ last.ev = "construct")
        => /\ selectedIndex = 0
           /\ lastMarkedIndex = -1
           /\ Marked = {}
           /\ \A i \in 0..(rowCount - 1) : ParseInt(rows[i + 1].index) = i
           /\ SelectedVisual = (IF rowCount > 0 THEN {0} ELSE {})

\* The controller has just been built on a table of several rows.
C14_Witness ==
    /\ Ready /\ last.ev = "construct"
    /\ rowCount >= 2
    /\ SelectedVisual = {0}
    /\ \A i \in 0..(rowCount - 1) : rows[i + 1].marked = "false"

\* C15: lastMarkedIndex is always -1 or a valid row index.
C15_AnchorValid ==
    Ready => (lastMarkedIndex = -1 \/ lastMarkedIndex \in 0..(rowCount - 1))

\* A mark has set the anchor to the last of several rows.
C15_Witness ==
    /\ Ready /\ (SpaceKey \/ ClickOnRow)
    /\ rowCount >= 2
    /\ lastMarkedIndex = rowCount - 1
    /\ last.anchor # lastMarkedIndex

\* C16: whenever lastMarkedIndex # -1, the row at lastMarkedIndex is marked.
C16_AnchorIsMarked ==
    (Ready /\ lastMarkedIndex # -1) => lastMarkedIndex \in Marked

\* C17 as stated: in every reachable state a row carries the marked visual
\* state if and only if its marked flag is true.
C17_MarkedVisualMatchesFlag ==
    Ready => MarkedVisual = Marked

\* C17 amended: when no class is in both selectedCls and markedCls, a row
\* carries the marked visual state if and only if its marked flag is true.
C17_MarkedVisualMatchesFlagDisjoint ==
    (Ready /\ Range(selectedCls) \cap Range(markedCls) = {})
        => MarkedVisual = Marked

\* With disjoint class lists, a range mark has left several rows marked next
\* to an unmarked one, each with the matching visual state.
C17_Witness ==
    /\ Ready /\ Range(selectedCls) \cap Range(markedCls) = {}
    /\ RangeMarkDone /\ last.anchor # -1
    /\ Cardinality(Marked) >= 2
    /\ Cardinality(Marked) < rowCount
    /\ MarkedVisual = Marked

\* C18: navigate(up) and navigate(down) leave every row's marked flag and
\* lastMarkedIndex unchanged.
C18_NavigationKeepsMarks ==
    [][(Ready /\ last'.ev = "keydown" /\ last'.key \in {"ArrowUp", "ArrowDown"})
          => /\ lastMarkedIndex' = lastMarkedIndex
             /\ \A i \in 1..Len(rows) : rows'[i].marked = rows[i].marked]_vars

\* A navigation key has moved the selection away from the anchor row, which
\* is still marked and still the anchor.
C18_Witness ==
    /\ Ready /\ last.ev = "keydown" /\ last.key \in {"ArrowUp", "ArrowDown"}
    /\ selectedIndex \in 0..(rowCount - 1)
    /\ lastMarkedIndex # -1 /\ lastMarkedIndex # selectedIndex
    /\ lastMarkedIndex = last.anchor
    /\ lastMarkedIndex \in Marked

\* The state a handler starts from after an earlier handler has returned.
After(st) == [st EXCEPT !.threw = FALSE]

\* C19: mark(single) applied twice in a row (rowCount > 0), and mark(range)
\* applied twice in a row (anchor present), leave the state the first
\* application left: rows, selectedIndex, lastMarkedIndex.
C19_RepeatedMarkIdempotent ==
    (Ready /\ rowCount > 0)
        => LET single1 == handleKeyDown(Cur, " ", FALSE, FALSE, FALSE)
               single2 == handleKeyDown(After(single1), " ", FALSE, FALSE, FALSE)
               range1  == handleKeyDown(Cur, " ", TRUE, FALSE, FALSE)
               range2  == handleKeyDown(After(range1), " ", TRUE, FALSE, FALSE)
           IN  /\ single2 = single1
               /\ (lastMarkedIndex # -1) => (range2 = range1)

\* mark(single) has been applied to a row that was already the anchor and is
\* the only marked row of several.
C19_Witness ==
    /\ Ready /\ SpaceKey /\ NoModifier
    /\ rowCount >= 2
    /\ selectedIndex \in 0..(rowCount - 1)
    /\ last.anchor = selectedIndex
    /\ Marked = {selectedIndex}
    /\ lastMarkedIndex = selectedIndex

====
